---- MODULE Spec2Model ----
(***************************************************************************)
(* Scrollify: a tall image is turned into a sequence of window frames      *)
(* (scrollify_core.py), encoded as GIF or MP4, and reported by a           *)
(* collaborator (scrollify_cli.py main, scrollify_gui.py                   *)
(* conversion_finished).                                                   *)
(*                                                                         *)
(* Modelling conventions                                                   *)
(*  - Python text that the code takes apart (aspect-ratio tokens, output   *)
(*    paths) is a sequence of one-character strings, so that split, int    *)
(*    and splitext are computed, not assumed.                              *)
(*  - Python floats: pause_duration and quality_factor are rationals       *)
(*    <<num, den>>; int(x) is truncation toward zero of the exact          *)
(*    quotient.  On every input the specifications below draw, the exact   *)
(*    quotient and the IEEE double computation of the code agree.          *)
(*  - Optional values: None is <<>>, a present value x is <<x>>.           *)
(*  - A frame is a record [y, w, h, pad, wm]: the offset it was cropped   *)
(*    at, its canvas size, the white rows padded below the image, and how  *)
(*    many times the watermark compositor has been applied to it.  Pixels  *)
(*    are not modelled.                                                    *)
(*  - Library writes (PIL save, moviepy write_videofile) succeed.          *)
(***************************************************************************)
EXTENDS Integers, Sequences, FiniteSets, TLC

VARIABLES
    config,          \* the ScrollifyConfig record held by the generator
    sourceFile,      \* None if config.source_image is missing, else its size
    moviepy,         \* whether `from moviepy.editor import ...` succeeds
    fs,              \* output paths at which a file exists
    source_image,    \* ScrollifyGenerator.source_image
    scaled_image,    \* ScrollifyGenerator.scaled_image
    window_height,   \* ScrollifyGenerator.window_height
    frames,          \* ScrollifyGenerator.frames
    y_position,      \* local y_position of generate_frames
    pc,              \* position of run()
    result,          \* return value of run(): None, <<TRUE>>, <<FALSE>>
    stages,          \* the stage methods run() has called, in order
    written,         \* containers handed to the encoders, in order
    args_output,     \* the output path the collaborator configured
    cli,             \* position of the collaborator after run()
    history,         \* what the earlier runs on this config object produced
    gui,             \* ScrollifyGUI: the Tk variables and widgets
    threads          \* ScrollifyGUI: the conversion threads started

\* what the pipeline leaves alone
ext == <<history, gui, threads>>

vars == <<config, sourceFile, moviepy, fs, source_image, scaled_image,
          window_height, frames, y_position, pc, result, stages, written,
          args_output, cli, history, gui, threads>>

-----------------------------------------------------------------------------
(* Bounds of the model *)

MaxSpeed == 3
MaxWidth == 12
MaxRatioTerm == 6
MaxRuns == 2
MaxThreads == 2
MaxFrames == 800

-----------------------------------------------------------------------------
(* Values *)

None == <<>>
Some(x) == <<x>>
Get(o) == o[1]

Min(a, b) == IF a <= b THEN a ELSE b
Max(a, b) == IF a >= b THEN a ELSE b
Abs(a) == IF a < 0 THEN -a ELSE a

\* Python int(a / b) for integers a, b with b # 0: truncation toward zero.
TruncDiv(a, b) ==
    IF (a >= 0) = (b > 0)
      THEN Abs(a) \div Abs(b)
      ELSE -(Abs(a) \div Abs(b))

\* Python seq[:stop]
PySliceTo(s, stop) ==
    LET n == Len(s)
        e == IF stop < 0 THEN Max(n + stop, 0) ELSE Min(stop, n)
    IN  SubSeq(s, 1, e)

\* Python [x] * n
Repeat(x, n) == [i \in 1..Max(n, 0) |-> x]

-----------------------------------------------------------------------------
(* Text: str.split, int(), os.path.splitext, str.upper *)

Digits == <<"0", "1", "2", "3", "4", "5", "6", "7", "8", "9">>

IsDigit(c) == \E i \in 1..10 : Digits[i] = c

DigitVal(c) == (CHOOSE i \in 1..10 : Digits[i] = c) - 1

RECURSIVE DecVal(_)
DecVal(s) ==
    IF Len(s) = 0 THEN 0
    ELSE 10 * DecVal(SubSeq(s, 1, Len(s) - 1)) + DigitVal(s[Len(s)])

\* int(s): an optional sign and one or more decimal digits, else ValueError
\* (None here).  Whitespace and underscores do not occur in the tokens drawn.
ParseInt(s) ==
    LET signed == Len(s) > 0 /\ s[1] \in {"+", "-"}
        body   == IF signed THEN Tail(s) ELSE s
    IN  IF Len(body) = 0 \/ \E i \in 1..Len(body) : ~IsDigit(body[i])
          THEN None
          ELSE Some(IF signed /\ s[1] = "-" THEN -DecVal(body) ELSE DecVal(body))

\* s.split(sep)
RECURSIVE Split(_, _)
Split(s, sep) ==
    IF \A i \in 1..Len(s) : s[i] # sep
      THEN <<s>>
      ELSE LET i == CHOOSE k \in 1..Len(s) :
                        s[k] = sep /\ \A j \in 1..(k - 1) : s[j] # sep
           IN  <<SubSeq(s, 1, i - 1)>> \o Split(SubSeq(s, i + 1, Len(s)), sep)

\* the text of a natural number
RECURSIVE Str(_)
Str(n) ==
    IF n < 10 THEN <<Digits[n + 1]>>
    ELSE Str(n \div 10) \o <<Digits[(n % 10) + 1]>>

\* index of the last c in s, 0 if none (str.rfind + 1)
RFind(s, c) ==
    IF \A i \in 1..Len(s) : s[i] # c THEN 0
    ELSE CHOOSE k \in 1..Len(s) : s[k] = c /\ \A j \in (k + 1)..Len(s) : s[j] # c

\* os.path.splitext(p)[0]: the extension starts at the last dot of the last
\* path component, leading dots of that component excepted.
SplitExtRoot(p) ==
    LET sepIndex == RFind(p, "/")
        dotIndex == RFind(p, ".")
    IN  IF dotIndex > sepIndex
           /\ \E k \in (sepIndex + 1)..(dotIndex - 1) : p[k] # "."
          THEN SubSeq(p, 1, dotIndex - 1)
          ELSE p

\* the part splitext splits off
SplitExtExt(p) == SubSeq(p, Len(SplitExtRoot(p)) + 1, Len(p))

Formats == {"GIF", "gif", "MP4", "mp4", "WEBM"}

Upper(f) ==
    CASE f = "gif" -> "GIF"
      [] f = "mp4" -> "MP4"
      [] OTHER -> f

-----------------------------------------------------------------------------
(* Inputs *)

\* aspect-ratio tokens
SOURCE == <<"s", "o", "u", "r", "c", "e">>
CUSTOM == <<"c", "u", "s", "t", "o", "m">>

\* the token "w:h"
Token(w, h) == Str(w) \o <<":">> \o Str(h)

R16_9 == Token(16, 9)

\* tokens that are not two positive integers around one colon
MalformedTokens ==
    { <<"a", "b", "c">>,                 \* abc
      <<>>,                              \* the empty string
      <<"1", "6">>,                      \* 16
      <<":">>,                           \* :
      <<"1", "6", ":">>,                 \* 16:
      <<"a", ":", "b">>,                 \* a:b
      <<"1", "6", ":", "9", ":", "1">>,  \* 16:9:1
      <<"1", "6", "x", "9">>,            \* 16x9
      <<"0", ":", "9">>,                 \* 0:9
      <<"1", "6", ":", "0">>,            \* 16:0
      <<"0", ":", "0">>,                 \* 0:0
      <<"-", "1", "6", ":", "9">>,       \* -16:9
      <<"1", "6", ":", "-", "9">> }      \* 16:-9

\* output paths
P_out_gif   == <<"o", "u", "t", ".", "g", "i", "f">>
P_video_mp4 == <<"v", ".", "m", "p", "4">>
P_noext     == <<"o", "u", "t">>
P_dotdir    == <<"a", ".", "b", "/", "o">>
P_hidden    == <<".", "m", "p", "4">>

Paths == {P_out_gif, P_video_mp4, P_noext, P_dotdir, P_hidden}

GifExt == <<".", "g", "i", "f">>

\* source images, as [w, h]
TallImage  == [w |-> 16, h |-> 40]
ShortImage == [w |-> 16, h |-> 6]
LongImage  == [w |-> 800, h |-> 3000]
FlatImage  == [w |-> 800, h |-> 300]

ScrollModes == {"down", "down-up", "down-once"}

\* pause_duration 0.0, 0.5, 2.0 and quality_factor 1.0, 0.8, 0.5
PauseDurations == {<<0, 1>>, <<1, 2>>, <<2, 1>>}
QualityFactors == {<<1, 1>>, <<4, 5>>, <<1, 2>>}
Framerates == {1, 3, 24}

\* ScrollifyConfig with the dataclass defaults, on a small canvas
BaseConfig ==
    [ source_image   |-> "image.png",
      aspect_ratio   |-> R16_9,
      output_width   |-> 16,
      output_height  |-> None,
      scroll_speed   |-> 1,
      framerate      |-> 1,
      scroll_mode    |-> "down",
      pause_duration |-> <<2, 1>>,
      output_format  |-> "GIF",
      output_path    |-> P_out_gif,
      quality_factor |-> <<1, 1>>,
      add_watermark  |-> FALSE ]

\* a run: the configuration, the source file on disk, the runtime
Run(cfg, file, mp) == [cfg |-> cfg, file |-> file, moviepy |-> mp]

\* the scheduler's inputs varied
ScheduleRuns ==
    { Run([BaseConfig EXCEPT !.scroll_speed = sp, !.framerate = fr,
                             !.scroll_mode = md, !.pause_duration = pd,
                             !.quality_factor = q, !.add_watermark = wm],
          Some(img), TRUE) :
        sp \in 1..MaxSpeed, fr \in Framerates, md \in ScrollModes,
        pd \in PauseDurations, q \in QualityFactors, wm \in BOOLEAN,
        img \in {TallImage, ShortImage} }

\* the 800-pixel examples: speed 8, 24 fps
ExampleRuns ==
    { Run([BaseConfig EXCEPT !.output_width = 800, !.scroll_speed = 8,
                             !.framerate = 24, !.scroll_mode = md,
                             !.pause_duration = pd, !.quality_factor = q],
          Some(img), TRUE) :
        md \in ScrollModes, pd \in {<<0, 1>>, <<2, 1>>},
        q \in {<<1, 1>>, <<4, 5>>}, img \in {LongImage, FlatImage} }

\* the encoder's inputs varied
EncodeRuns ==
    { Run([BaseConfig EXCEPT !.scroll_speed = MaxSpeed, !.scroll_mode = md,
                             !.pause_duration = pd, !.output_format = fmt,
                             !.output_path = p, !.add_watermark = wm],
          file, mp) :
        md \in ScrollModes, pd \in {<<0, 1>>, <<2, 1>>}, fmt \in Formats,
        p \in Paths, wm \in BOOLEAN, file \in {None, Some(TallImage)},
        mp \in BOOLEAN }

\* the frame rates the GUI offers (scrollify_gui.py line 136)
GuiFramerates == {12, 15, 20, 24, 30, 60}

\* the frame rate varied on the GIF path, the MP4 path and the fallback
DurationRuns ==
    { Run([BaseConfig EXCEPT !.scroll_speed = MaxSpeed, !.framerate = fr,
                             !.pause_duration = <<1, 2>>,
                             !.output_format = fmt, !.output_path = p],
          Some(TallImage), mp) :
        fr \in Framerates \cup GuiFramerates,
        fmt \in {"GIF", "MP4"}, p \in {P_out_gif, P_video_mp4},
        mp \in BOOLEAN }

\* the geometry resolver's inputs varied
GeometryRuns ==
    { Run([BaseConfig EXCEPT !.aspect_ratio = tok, !.output_width = W,
                             !.output_height = oh],
          Some(img), TRUE) :
        tok \in {Token(w, h) : w, h \in 1..MaxRatioTerm}
                  \cup {R16_9, SOURCE, CUSTOM} \cup MalformedTokens,
        W \in 1..MaxWidth, oh \in {None, Some(0), Some(5), Some(-5)},
        img \in {TallImage, ShortImage} }

\* no ScrollifyGUI has been constructed
NoGui == [input_file |-> <<>>, output_file |-> <<>>, progress |-> FALSE,
          status |-> "none"]

InitOf(runs) ==
    /\ \E r \in runs :
         /\ config = r.cfg
         /\ sourceFile = r.file
         /\ moviepy = r.moviepy
         /\ args_output = r.cfg.output_path
    /\ fs = {}
    /\ source_image = None
    /\ scaled_image = None
    /\ window_height = None
    /\ frames = <<>>
    /\ y_position = 0
    /\ pc = "load"
    /\ result = None
    /\ stages = <<>>
    /\ written = <<>>
    /\ cli = "running"
    /\ history = <<>>
    /\ gui = NoGui
    /\ threads = <<>>

Init ==
    InitOf(ScheduleRuns \cup ExampleRuns \cup EncodeRuns \cup DurationRuns)

\* what scrollify_cli.py accepts and hands to the generator: --speed and
\* --fps are any int, --pause any float (lines 46-68, no range is checked)
CliSpeeds == -1..MaxSpeed
CliFramerates == {0, 1, 3}
CliPauseDurations == {<<-1, 1>>, <<0, 1>>, <<9, 10>>, <<2, 1>>}

CliRuns ==
    { Run([BaseConfig EXCEPT !.scroll_speed = sp, !.framerate = fr,
                             !.scroll_mode = md, !.pause_duration = pd],
          Some(img), TRUE) :
        sp \in CliSpeeds, fr \in CliFramerates, md \in ScrollModes,
        pd \in CliPauseDurations, img \in {TallImage, ShortImage} }

InitCli == InitOf(CliRuns)

InitDims == InitOf(GeometryRuns)

-----------------------------------------------------------------------------
(* run(): an exception in a stage is caught and run() returns False *)

Raise ==
    /\ pc' = "returned"
    /\ result' = Some(FALSE)

(* load_image *)
LoadImage ==
    /\ pc = "load"
    /\ stages' = Append(stages, "load_image")
    /\ IF sourceFile = None
         THEN Raise /\ UNCHANGED source_image
         ELSE /\ source_image' = sourceFile
              /\ pc' = "dims"
              /\ UNCHANGED result
    /\ UNCHANGED <<config, sourceFile, moviepy, fs, scaled_image,
                   window_height, frames, y_position, written, args_output,
                   cli>>
    /\ UNCHANGED ext

(* calculate_dimensions *)
DefaultHeight(W) == TruncDiv(W * 9, 16)

\* the ratio applied upside down
RatioHeight_Inverted(W, w_ratio, h_ratio) == TruncDiv(W * w_ratio, h_ratio)

\* line 95
RatioHeight(W, w_ratio, h_ratio) == TruncDiv(W * h_ratio, w_ratio)

AspectHeight(cfg, img) ==
    IF cfg.aspect_ratio = SOURCE
      THEN TruncDiv(cfg.output_width * img.h, img.w)
    ELSE IF cfg.aspect_ratio = CUSTOM
            /\ cfg.output_height # None /\ Get(cfg.output_height) # 0
      THEN Get(cfg.output_height)
    ELSE LET parts == Split(cfg.aspect_ratio, ":")
             w_ratio == ParseInt(parts[1])
             h_ratio == ParseInt(parts[2])
         IN  IF Len(parts) = 2 /\ w_ratio # None /\ h_ratio # None
                /\ Get(w_ratio) # 0
               THEN RatioHeight(cfg.output_width, Get(w_ratio), Get(h_ratio))
               ELSE DefaultHeight(cfg.output_width)

CalculateDimensions ==
    /\ pc = "dims"
    /\ stages' = Append(stages, "calculate_dimensions")
    /\ window_height' = Some(AspectHeight(config, Get(source_image)))
    /\ pc' = "pre"
    /\ UNCHANGED <<config, sourceFile, moviepy, fs, source_image,
                   scaled_image, frames, y_position, result, written,
                   args_output, cli>>
    /\ UNCHANGED ext

(* preprocess_image *)
NewWidth(cfg, img) ==
    TruncDiv(cfg.output_width * cfg.quality_factor[1], cfg.quality_factor[2])

NewHeight(cfg, img) ==
    TruncDiv(img.h * cfg.output_width * cfg.quality_factor[1],
             img.w * cfg.quality_factor[2])

\* preprocess_image without lines 120-123: the window is left as computed
PreprocessImage_NoReconcile ==
    /\ pc = "pre"
    /\ stages' = Append(stages, "preprocess_image")
    /\ scaled_image' = Some([w |-> NewWidth(config, Get(source_image)),
                             h |-> NewHeight(config, Get(source_image))])
    /\ pc' = "gen"
    /\ UNCHANGED <<config, window_height, sourceFile, moviepy, fs,
                   source_image, frames, y_position, result, written,
                   args_output, cli>>
    /\ UNCHANGED ext

\* lines 102-126
PreprocessImage ==
    /\ pc = "pre"
    /\ stages' = Append(stages, "preprocess_image")
    /\ LET img        == Get(source_image)
           new_width  == NewWidth(config, img)
           new_height == NewHeight(config, img)
       IN  /\ scaled_image' = Some([w |-> new_width, h |-> new_height])
           /\ IF new_width # config.output_width
                THEN /\ window_height' =
                          Some(TruncDiv(Get(window_height) * new_width,
                                        config.output_width))
                     /\ config' = [config EXCEPT !.output_width = new_width]
                ELSE UNCHANGED <<window_height, config>>
    /\ pc' = "gen"
    /\ UNCHANGED <<sourceFile, moviepy, fs, source_image, frames, y_position,
                   result, written, args_output, cli>>
    /\ UNCHANGED ext

(* generate_frames *)
StaticMinFrames == 30

\* the product rounded to the nearest integer (half up) and floored at 0
PauseFrames_Rounded(cfg) ==
    LET p == cfg.pause_duration[1] * cfg.framerate
        d == cfg.pause_duration[2]
    IN  IF p < 0 THEN 0 ELSE (2 * p + d) \div (2 * d)

\* line 143 (and line 137 on the static path)
PauseFrames(cfg) ==
    TruncDiv(cfg.pause_duration[1] * cfg.framerate, cfg.pause_duration[2])

\* _crop_safe: the window at y_start, padded with white rows below the image
CropSafe(y_start, height) ==
    LET y_end         == Min(y_start + height, Get(scaled_image).h)
        actual_height == y_end - y_start
    IN  [ y   |-> y_start,
          w   |-> config.output_width,
          h   |-> IF actual_height < height THEN height ELSE actual_height,
          pad |-> IF actual_height < height THEN height - actual_height ELSE 0,
          wm  |-> 0 ]

MaxY == Get(scaled_image).h - Get(window_height)

\* _add_watermark_to_frames: every frame is replaced by its composite
Watermarked(frame) == [frame EXCEPT !.wm = @ + 1]

AddWatermarkToFrames(fs_) == [i \in 1..Len(fs_) |-> Watermarked(fs_[i])]

\* lines 173-175
WatermarkStep(fs_) ==
    IF config.add_watermark THEN AddWatermarkToFrames(fs_) ELSE fs_

\* the static path without the floor of 30 frames
StaticFrames_NoFloor ==
    Repeat(CropSafe(0, Get(window_height)), PauseFrames(config))

\* lines 135-140: the static path returns from generate_frames
StaticFrames ==
    Repeat(CropSafe(0, Get(window_height)),
           Max(PauseFrames(config), StaticMinFrames))

\* lines 171: frames[:-pause_frames]
DropBottomHold(fs_, pause_frames) == PySliceTo(fs_, -pause_frames)

\* lines 128-151: entry, static path or top hold
GenerateFrames ==
    /\ pc = "gen"
    /\ stages' = Append(stages, "generate_frames")
    /\ IF Get(scaled_image).h <= Get(window_height)
         THEN /\ frames' = StaticFrames
              /\ pc' = "save"
              /\ UNCHANGED y_position
         ELSE /\ frames' = Repeat(CropSafe(0, Get(window_height)),
                                  PauseFrames(config))
              /\ y_position' = 0
              /\ pc' = "descent"
    /\ UNCHANGED <<config, sourceFile, moviepy, fs, source_image,
                   scaled_image, window_height, result, written, args_output,
                   cli>>
    /\ UNCHANGED ext

\* the descent step without the clamp to max_y
ScrollDown_NoClamp ==
    /\ pc = "descent"
    /\ y_position < MaxY
    /\ Len(frames) < MaxFrames
    /\ y_position' = y_position + config.scroll_speed
    /\ frames' = Append(frames, CropSafe(y_position', Get(window_height)))
    /\ UNCHANGED <<config, sourceFile, moviepy, fs, source_image,
                   scaled_image, window_height, pc, result, stages, written,
                   args_output, cli>>
    /\ UNCHANGED ext

\* lines 153-156: one iteration of the descent loop
ScrollDown ==
    /\ pc = "descent"
    /\ y_position < MaxY
    /\ Len(frames) < MaxFrames
    /\ y_position' = Min(y_position + config.scroll_speed, MaxY)
    /\ frames' = Append(frames, CropSafe(y_position', Get(window_height)))
    /\ UNCHANGED <<config, sourceFile, moviepy, fs, source_image,
                   scaled_image, window_height, pc, result, stages, written,
                   args_output, cli>>
    /\ UNCHANGED ext

\* lines 158-177: the descent loop has ended; bottom hold, then by mode
BottomHold ==
    /\ pc = "descent"
    /\ ~(y_position < MaxY)
    /\ LET held == frames \o Repeat(CropSafe(MaxY, Get(window_height)),
                                    PauseFrames(config))
       IN  IF config.scroll_mode = "down-up"
             THEN /\ frames' = held
                  /\ pc' = "ascent"
             ELSE /\ frames' =
                       WatermarkStep(
                         IF config.scroll_mode = "down-once"
                           THEN DropBottomHold(held, PauseFrames(config))
                           ELSE held)
                  /\ pc' = "save"
    /\ UNCHANGED <<config, sourceFile, moviepy, fs, source_image,
                   scaled_image, window_height, y_position, result, stages,
                   written, args_output, cli>>
    /\ UNCHANGED ext

\* the ascent step without the clamp to 0
ScrollUp_NoClamp ==
    /\ pc = "ascent"
    /\ y_position > 0
    /\ Len(frames) < MaxFrames
    /\ y_position' = y_position - config.scroll_speed
    /\ frames' = Append(frames, CropSafe(y_position', Get(window_height)))
    /\ UNCHANGED <<config, sourceFile, moviepy, fs, source_image,
                   scaled_image, window_height, pc, result, stages, written,
                   args_output, cli>>
    /\ UNCHANGED ext

\* lines 165-168: one iteration of the ascent loop
ScrollUp ==
    /\ pc = "ascent"
    /\ y_position > 0
    /\ Len(frames) < MaxFrames
    /\ y_position' = Max(y_position - config.scroll_speed, 0)
    /\ frames' = Append(frames, CropSafe(y_position', Get(window_height)))
    /\ UNCHANGED <<config, sourceFile, moviepy, fs, source_image,
                   scaled_image, window_height, pc, result, stages, written,
                   args_output, cli>>
    /\ UNCHANGED ext

\* lines 165, 173-177: the ascent loop has ended
TopReached ==
    /\ pc = "ascent"
    /\ ~(y_position > 0)
    /\ frames' = WatermarkStep(frames)
    /\ pc' = "save"
    /\ UNCHANGED <<config, sourceFile, moviepy, fs, source_image,
                   scaled_image, window_height, y_position, result, stages,
                   written, args_output, cli>>
    /\ UNCHANGED ext

(* save_output, _save_as_gif, _save_as_mp4 *)
LoopCount(cfg) == IF cfg.scroll_mode # "down-once" THEN 0 ELSE 1

\* the frame duration rounded to the nearest millisecond
DurationMs_Rounded(cfg) == TruncDiv(2 * 1000 + cfg.framerate, 2 * cfg.framerate)

\* line 247
DurationMs(cfg) == TruncDiv(1000, cfg.framerate)

GifContainer(path, duration_ms) ==
    [ path      |-> path,
      container |-> "GIF",
      frames    |-> frames,
      duration  |-> Some(duration_ms),
      fps       |-> None,
      loop      |-> Some(LoopCount(config)) ]

Mp4Container(path) ==
    [ path      |-> path,
      container |-> "MP4",
      frames    |-> frames,
      duration  |-> None,
      fps       |-> Some(config.framerate),
      loop      |-> None ]

\* the fallback with the output path left as it is
FallbackPath_Unchanged(path) == path

\* lines 307-308
FallbackPath(path) == SplitExtRoot(path) \o GifExt

\* the container save_output writes, and the path it is written at
Encoded(cfg) ==
    IF Upper(cfg.output_format) = "GIF"
      THEN GifContainer(cfg.output_path, DurationMs(cfg))
    ELSE IF moviepy
      THEN Mp4Container(cfg.output_path)
      ELSE GifContainer(FallbackPath(cfg.output_path), DurationMs(cfg))

\* save_output without the final else: any format but GIF is taken for MP4
SaveOutput_NoFormatCheck ==
    /\ pc = "save"
    /\ stages' = Append(stages, "save_output")
    /\ IF frames = <<>> \/ config.framerate = 0
         THEN /\ Raise
              /\ UNCHANGED <<config, fs, written>>
         ELSE LET out == Encoded(config)
              IN  /\ written' = Append(written, out)
                  /\ fs' = fs \cup {out.path}
                  /\ config' = [config EXCEPT !.output_path = out.path]
                  /\ pc' = "returned"
                  /\ result' = Some(TRUE)
    /\ UNCHANGED <<sourceFile, moviepy, source_image, scaled_image,
                   window_height, frames, y_position, args_output, cli>>
    /\ UNCHANGED ext

SaveOutput ==
    /\ pc = "save"
    /\ stages' = Append(stages, "save_output")
    /\ IF frames = <<>> \/ config.framerate = 0
          \/ Upper(config.output_format) \notin {"GIF", "MP4"}
         THEN /\ Raise
              /\ UNCHANGED <<config, fs, written>>
         ELSE LET out == Encoded(config)
              IN  /\ written' = Append(written, out)
                  /\ fs' = fs \cup {out.path}
                  /\ config' = [config EXCEPT !.output_path = out.path]
                  /\ pc' = "returned"
                  /\ result' = Some(TRUE)
    /\ UNCHANGED <<sourceFile, moviepy, source_image, scaled_image,
                   window_height, frames, y_position, args_output, cli>>
    /\ UNCHANGED ext

(* the collaborator after run(): scrollify_cli.py main lines 129-142,
   scrollify_gui.py conversion_finished lines 347-353 *)
Main ==
    /\ pc = "returned"
    /\ cli = "running"
    /\ cli' = IF Get(result)
                THEN IF args_output \in fs THEN "reported" ELSE "crashed"
                ELSE "exit1"
    /\ UNCHANGED <<config, sourceFile, moviepy, fs, source_image,
                   scaled_image, window_height, frames, y_position, pc,
                   result, stages, written, args_output>>
    /\ UNCHANGED ext

-----------------------------------------------------------------------------
Next ==
    \/ LoadImage
    \/ CalculateDimensions
    \/ PreprocessImage
    \/ GenerateFrames
    \/ ScrollDown
    \/ BottomHold
    \/ ScrollUp
    \/ TopReached
    \/ SaveOutput
    \/ Main

Spec == Init /\ [][Next]_vars

SpecCli == InitCli /\ [][Next]_vars

NextDims == LoadImage \/ CalculateDimensions

-----------------------------------------------------------------------------
(* a caller that runs the pipeline again on the ScrollifyConfig object it
   already passed: ScrollifyGenerator(config).run(), or run() on the
   generator it already has *)

\* what a run produced: scaled size, window geometry, frame count, offsets
RunSummary ==
    [ scaled  |-> scaled_image,
      window  |-> <<config.output_width, window_height>>,
      count   |-> Len(frames),
      offsets |-> [i \in 1..Len(frames) |-> frames[i].y] ]

Rerun ==
    /\ pc = "returned"
    /\ Len(history) < MaxRuns - 1
    /\ history' = Append(history, RunSummary)
    /\ \E sameGenerator \in BOOLEAN :
         IF sameGenerator
           THEN UNCHANGED <<source_image, scaled_image, window_height, frames>>
           ELSE /\ source_image' = None
                /\ scaled_image' = None
                /\ window_height' = None
                /\ frames' = <<>>
    /\ y_position' = 0
    /\ pc' = "load"
    /\ result' = None
    /\ stages' = <<>>
    /\ UNCHANGED <<config, sourceFile, moviepy, fs, written, args_output, cli,
                   gui, threads>>

NextRerun == Next \/ Rerun

SpecRerun == Init /\ [][NextRerun]_vars

SpecDims == InitDims /\ [][NextDims]_vars

-----------------------------------------------------------------------------
(* ScrollifyGUI (scrollify_gui.py): the Tk main thread handles the buttons
   and the callbacks posted with root.after; each conversion runs in a
   thread of its own.  What run() does is modelled above; here a thread's
   run() is its outcome: failure, or a file at the configured path or at
   the fallback path. *)

InputFile == <<"a", ".", "p", "n", "g">>

ScrollSuffix == <<"_", "s", "c", "r", "o", "l", "l", ".", "g", "i", "f">>

DefaultOutput == <<"o", "u", "t", "p", "u", "t", "_", "s", "c", "r", "o",
                   "l", "l", ".", "g", "i", "f">>

GuiPaths == {P_out_gif, P_video_mp4}

InitGui ==
    /\ config = BaseConfig
    /\ sourceFile = Some(TallImage)
    /\ moviepy \in BOOLEAN
    /\ args_output = BaseConfig.output_path
    /\ fs = {}
    /\ source_image = None
    /\ scaled_image = None
    /\ window_height = None
    /\ frames = <<>>
    /\ y_position = 0
    /\ pc = "idle"
    /\ result = None
    /\ stages = <<>>
    /\ written = <<>>
    /\ cli = "running"
    /\ history = <<>>
    /\ gui = [input_file |-> <<>>, output_file |-> <<>>, progress |-> FALSE,
              status |-> "ready"]
    /\ threads = <<>>

\* everything but fs, gui and threads
pipelineVars ==
    <<config, sourceFile, moviepy, source_image, scaled_image, window_height,
      frames, y_position, pc, result, stages, written, args_output, cli,
      history>>

\* browse_input_file, lines 210-225
BrowseInputFile ==
    /\ gui' = [gui EXCEPT
                 !.input_file = InputFile,
                 !.output_file = IF gui.output_file = <<>>
                                   THEN SplitExtRoot(InputFile) \o ScrollSuffix
                                   ELSE @]
    /\ UNCHANGED <<pipelineVars, fs, threads>>

\* browse_output_file, lines 227-239
BrowseOutputFile ==
    /\ \E filename \in GuiPaths : gui' = [gui EXCEPT !.output_file = filename]
    /\ UNCHANGED <<pipelineVars, fs, threads>>

\* start_conversion, lines 315-341
StartConversion ==
    /\ Len(threads) < MaxThreads
    /\ IF gui.input_file = <<>> \/ gui.output_file = <<>>
         THEN UNCHANGED <<gui, threads>>
         ELSE /\ gui' = [gui EXCEPT !.progress = TRUE,
                                    !.status = "converting"]
              /\ threads' = Append(threads,
                                   [state |-> "started", path |-> None,
                                    success |-> None])
    /\ UNCHANGED <<pipelineVars, fs>>

\* conversion_thread, lines 330-332 and 338-339: create_config reads the Tk
\* variables; a TclError there is caught and conversion_error is posted
ThreadCreateConfig ==
    /\ \E i \in 1..Len(threads) :
         /\ threads[i].state = "started"
         /\ \E ok \in BOOLEAN :
              threads' = [threads EXCEPT ![i] =
                IF ok
                  THEN [@ EXCEPT !.state = "running",
                                 !.path = Some(IF gui.output_file = <<>>
                                                 THEN DefaultOutput
                                                 ELSE gui.output_file)]
                  ELSE [@ EXCEPT !.state = "error"]]
    /\ UNCHANGED <<pipelineVars, fs, gui>>

\* conversion_thread, lines 333-336: run() returns and the callback is posted
ThreadRun ==
    /\ \E i \in 1..Len(threads) :
         /\ threads[i].state = "running"
         /\ \/ /\ threads' = [threads EXCEPT ![i] =
                                [@ EXCEPT !.state = "finished",
                                          !.success = Some(FALSE)]]
               /\ UNCHANGED fs
            \/ \E p \in {Get(threads[i].path),
                         FallbackPath(Get(threads[i].path))} :
                 /\ threads' = [threads EXCEPT ![i] =
                                  [@ EXCEPT !.state = "finished",
                                            !.success = Some(TRUE)]]
                 /\ fs' = fs \cup {p}
    /\ UNCHANGED <<pipelineVars, gui>>

\* conversion_finished, lines 343-353; the size lookup raises if no file is
\* at the path now in output_file
ConversionFinished ==
    /\ \E i \in 1..Len(threads) :
         /\ threads[i].state = "finished"
         /\ threads' = [threads EXCEPT ![i] = [@ EXCEPT !.state = "notified"]]
         /\ gui' = [gui EXCEPT
                      !.progress = FALSE,
                      !.status = IF Get(threads[i].success)
                                   THEN IF gui.output_file \in fs
                                          THEN "done"
                                          ELSE "done, lookup raised"
                                   ELSE "failed"]
    /\ UNCHANGED <<pipelineVars, fs>>

\* conversion_error, lines 355-359
ConversionError ==
    /\ \E i \in 1..Len(threads) :
         /\ threads[i].state = "error"
         /\ threads' = [threads EXCEPT ![i] = [@ EXCEPT !.state = "notified"]]
         /\ gui' = [gui EXCEPT !.progress = FALSE, !.status = "error"]
    /\ UNCHANGED <<pipelineVars, fs>>

NextGui ==
    \/ BrowseInputFile
    \/ BrowseOutputFile
    \/ StartConversion
    \/ ThreadCreateConfig
    \/ ThreadRun
    \/ ConversionFinished
    \/ ConversionError

SpecGui == InitGui /\ [][NextGui]_vars

-----------------------------------------------------------------------------
(* Vocabulary of the properties *)

CeilDiv(a, b) == (a + b - 1) \div b

\* the offsets of the frame sequence, in playback order
Offsets == [i \in 1..Len(frames) |-> frames[i].y]

Hold(offset, n) == [i \in 1..n |-> offset]

Descent(maxOffset, speed) ==
    [k \in 1..CeilDiv(maxOffset, speed) |-> Min(k * speed, maxOffset)]

Ascent(maxOffset, speed) ==
    [k \in 1..CeilDiv(maxOffset, speed) |-> Max(maxOffset - k * speed, 0)]

\* generate_frames has returned and save_output has not started
FramesReady == pc = "save"

\* the scaled image is taller than the window
Scrolling == Get(scaled_image).h > Get(window_height)

-----------------------------------------------------------------------------
(* Frame Scheduler *)

\* C1: in down-once mode with scaledHeight > windowHeight and
\* scrollSpeed > 0 the offsets are pauseFrameCount zeros followed by the
\* descent min(k*speed, maxOffset), k = 1..ceil(maxOffset/speed), ending at
\* maxOffset with no bottom hold, for every pauseFrameCount >= 0.
C1_SinglePassIsHoldThenDescent ==
    (FramesReady /\ Scrolling /\ config.scroll_mode = "down-once"
       /\ config.scroll_speed > 0 /\ PauseFrames(config) >= 0)
    => /\ Offsets = Hold(0, PauseFrames(config))
                      \o Descent(MaxY, config.scroll_speed)
       /\ frames[Len(frames)].y = MaxY

\* C2: when scaledHeight <= windowHeight, in every scroll mode, exactly
\* max(pauseFrames, 30) frames are emitted, all the window at offset 0.
C2_StaticFrameCount ==
    (FramesReady /\ ~Scrolling)
    => /\ Len(frames) = Max(PauseFrames(config), 30)
       /\ \A i \in 1..Len(frames) :
            frames[i].y = 0 /\ frames[i] = frames[1]

\* the 800x300 example: window 450, pause 0, 30 frames
C2_Witness ==
    /\ FramesReady /\ ~Scrolling
    /\ source_image = Some(FlatImage)
    /\ Get(window_height) = 450
    /\ PauseFrames(config) = 0
    /\ Len(frames) = 30

\* C3: in down mode with scaledHeight > windowHeight and scrollSpeed > 0
\* the offsets are pauseFrames zeros, the descent min(k*speed, maxOffset)
\* for k = 1..ceil(maxOffset/speed), then pauseFrames copies of maxOffset;
\* no offset exceeds maxOffset and the total is
\* 2*pauseFrames + ceil(maxOffset/speed).
C3_DownOnlyOffsets ==
    (FramesReady /\ Scrolling /\ config.scroll_mode = "down"
       /\ config.scroll_speed > 0)
    => LET pf == PauseFrames(config)
           n  == CeilDiv(MaxY, config.scroll_speed)
       IN  /\ Offsets = Hold(0, pf) \o Descent(MaxY, config.scroll_speed)
                          \o Hold(MaxY, pf)
           /\ \A i \in 1..Len(frames) : frames[i].y <= MaxY
           /\ frames[pf + n].y = MaxY
           /\ Len(frames) = 2 * pf + n
           /\ (MaxY = 2550 /\ config.scroll_speed = 8 /\ pf = 48)
                => Len(frames) = 415

\* maxOffset 2550, speed 8 (which does not divide it), 48 pause frames
C3_Witness ==
    /\ FramesReady /\ Scrolling /\ config.scroll_mode = "down"
    /\ MaxY = 2550 /\ config.scroll_speed = 8 /\ PauseFrames(config) = 48
    /\ MaxY % config.scroll_speed # 0
    /\ Len(frames) = 415

\* C4: in down-up mode with scaledHeight > windowHeight and scrollSpeed > 0
\* the sequence is the down-only sequence followed by the ascent
\* max(maxOffset - k*speed, 0), k = 1..ceil(maxOffset/speed); the last
\* offset is 0, no hold follows the ascent, and the total is
\* 2*pauseFrames + 2*ceil(maxOffset/speed).
C4_RoundTripOffsets ==
    (FramesReady /\ Scrolling /\ config.scroll_mode = "down-up"
       /\ config.scroll_speed > 0)
    => LET pf == PauseFrames(config)
           n  == CeilDiv(MaxY, config.scroll_speed)
       IN  /\ Offsets = Hold(0, pf) \o Descent(MaxY, config.scroll_speed)
                          \o Hold(MaxY, pf)
                          \o Ascent(MaxY, config.scroll_speed)
           /\ frames[Len(frames)].y = 0
           /\ frames[Len(frames) - 1].y # 0
           /\ Len(frames) = 2 * pf + 2 * n
           /\ (MaxY = 2550 /\ config.scroll_speed = 8 /\ pf = 48)
                => Len(frames) = 734

C4_Witness ==
    /\ FramesReady /\ Scrolling /\ config.scroll_mode = "down-up"
    /\ MaxY = 2550 /\ config.scroll_speed = 8 /\ PauseFrames(config) = 48
    /\ Len(frames) = 734

-----------------------------------------------------------------------------
(* Geometry Resolver, under SpecDims *)

\* calculate_dimensions has returned
DimensionsReady == pc = "pre"

\* C5 as amended: for every token w:h of positive integers and every target
\* width W > 0, the window height is int(W*h/w), the quotient truncated
\* (rounded down), not rounded to the nearest integer.
C5_HeightIsTruncated ==
    /\ \A w, h \in 1..MaxRatioTerm :
         (DimensionsReady /\ config.aspect_ratio = Token(w, h)
            /\ config.output_width > 0)
         => Get(window_height) = (config.output_width * h) \div w
    /\ (DimensionsReady /\ config.aspect_ratio = R16_9
          /\ config.output_width > 0)
       => Get(window_height) = (config.output_width * 9) \div 16

\* 10 wide at 3:2 is 6.67 rows: the window is 6 rows high, not 7
C5_Witness ==
    /\ DimensionsReady
    /\ config.aspect_ratio = Token(3, 2)
    /\ config.output_width = 10
    /\ Get(window_height) = 6

\* C5: for every token w:h of positive integers and every target width
\* W > 0, the window height is the integer nearest to W*h/w.
C5_HeightIsNearest ==
    \A w, h \in 1..MaxRatioTerm :
      (DimensionsReady /\ config.aspect_ratio = Token(w, h)
         /\ config.output_width > 0)
      => 2 * Abs(w * Get(window_height) - config.output_width * h) <= w

\* C6: every token that is neither "source", nor "custom" with a positive
\* explicit height, nor two positive integers around one colon, makes
\* calculate_dimensions return normally with the 16:9 default height.
C6_MalformedGivesDefault ==
    (DimensionsReady
       /\ \/ config.aspect_ratio \in MalformedTokens
          \/ /\ config.aspect_ratio = CUSTOM
             /\ ~(config.output_height # None
                    /\ Get(config.output_height) > 0))
    => Get(window_height) = (config.output_width * 9) \div 16

-----------------------------------------------------------------------------
(* Watermark Compositor and Output Encoder *)

\* save_output has been called
SaveCalled == \E i \in 1..Len(stages) : stages[i] = "save_output"

\* C7: with the watermark flag set every frame handed to the encoder has
\* been through the compositor, on the static, down, down-up and down-once
\* paths; with the flag not set no frame has.
C7_EncodedFramesWatermarked ==
    \A i \in 1..Len(written) :
      \A k \in 1..Len(written[i].frames) :
        IF config.add_watermark
          THEN written[i].frames[k].wm >= 1
          ELSE written[i].frames[k].wm = 0

\* the output paths drawn, with the extension rewritten to .gif
RewrittenToGif(path) ==
    CASE path = P_out_gif   -> <<"o", "u", "t", ".", "g", "i", "f">>
      [] path = P_video_mp4 -> <<"v", ".", "g", "i", "f">>
      [] path = P_noext     -> <<"o", "u", "t", ".", "g", "i", "f">>
      [] path = P_dotdir    -> <<"a", ".", "b", "/", "o", ".", "g", "i", "f">>
      [] path = P_hidden    -> <<".", "m", "p", "4", ".", "g", "i", "f">>

\* save_output was called for MP4 with frames to encode and no moviepy
Mp4WithoutMoviepy ==
    /\ SaveCalled
    /\ Upper(config.output_format) = "MP4"
    /\ ~moviepy
    /\ frames # <<>>
    /\ config.framerate > 0

\* C8: when MP4 is requested and moviepy is absent, one animated-image file
\* is written, at the output path with its extension rewritten to .gif,
\* from the same frame sequence, and run() reports success.
C8_Mp4FallsBackToGif ==
    Mp4WithoutMoviepy
    => /\ result = Some(TRUE)
       /\ Len(written) = 1
       /\ written[1].container = "GIF"
       /\ written[1].path = RewrittenToGif(args_output)
       /\ written[1].path \in fs
       /\ written[1].frames = frames

C8_Witness ==
    /\ Mp4WithoutMoviepy
    /\ args_output = P_video_mp4
    /\ written[1].path = <<"v", ".", "g", "i", "f">>
    /\ result = Some(TRUE)

\* C9: whenever run() returns success the output file exists at the path
\* the collaborator configured, so the collaborator's size lookup on that
\* path finds it, for GIF, MP4 and MP4 fallen back to GIF.
C9_FileAtConfiguredPath ==
    (pc = "returned" /\ result = Some(TRUE))
    => /\ args_output \in fs
       /\ cli # "crashed"

\* C10: a missing source, an empty frame sequence at encode time and an
\* unrecognized output format each make run() return False, with no later
\* stage called and nothing written: the missing source before any frame
\* is generated, the other two before any write to the output path.
C10_FatalConditionsAbortBeforeWrite ==
    /\ sourceFile = None
       => /\ stages \in {<<>>, <<"load_image">>}
          /\ stages # <<>> => (pc = "returned" /\ result = Some(FALSE))
          /\ frames = <<>> /\ scaled_image = None
          /\ written = <<>> /\ fs = {}
          /\ cli \in {"running", "exit1"}
    /\ (SaveCalled /\ (frames = <<>>
                         \/ Upper(config.output_format) \notin {"GIF", "MP4"}))
       => /\ pc = "returned" /\ result = Some(FALSE)
          /\ stages[Len(stages)] = "save_output"
          /\ written = <<>> /\ fs = {}
          /\ cli \in {"running", "exit1"}

\* the scheduler produced no frame and the collaborator was told so
C10_Witness ==
    /\ SaveCalled
    /\ frames = <<>>
    /\ result = Some(FALSE)
    /\ written = <<>>
    /\ cli = "exit1"

-----------------------------------------------------------------------------
(* Configuration and repeated runs *)

\* C11: a pipeline run leaves the caller-supplied ScrollifyConfig
\* unchanged: no stage of run() changes a field of it, output_width and
\* output_path included, for every quality factor and output format.
C11_ConfigUnchanged == [][config' = config]_vars

\* C12: a second run with the same ScrollifyConfig object and an unchanged
\* source image (on a new generator or on the same one) produces the same
\* scaled size, window geometry, frame count and offsets as the first.
C12_SecondRunSame ==
    (Len(history) >= 1 /\ pc = "returned") => RunSummary = history[1]

-----------------------------------------------------------------------------
(* ScrollifyGUI, under SpecGui *)

\* C13: the GUI never has two pipeline runs in progress at the same time
\* against the same output path, whatever the sequence of start_conversion
\* invocations.
C13_NoConcurrentRunsOnOnePath ==
    \A i, j \in 1..Len(threads) :
      (i # j /\ threads[i].state = "running" /\ threads[j].state = "running")
      => threads[i].path # threads[j].path

-----------------------------------------------------------------------------
(* Termination, under SpecCli *)

\* C14: every pipeline run started by the CLI terminates; in particular the
\* descent loop reaches maxOffset and the ascent loop reaches 0: each
\* iteration of the descent loop moves the offset up, each iteration of the
\* ascent loop moves it down.
C14_LoopsAdvance ==
    [][ /\ (pc = "descent" /\ pc' = "descent") => y_position' > y_position
        /\ (pc = "ascent" /\ pc' = "ascent") => y_position' < y_position ]_vars

-----------------------------------------------------------------------------
(* Frame duration *)

\* the animated-image containers written so far
GifWritten == {i \in 1..Len(written) : written[i].container = "GIF"}

\* C15 as the code has it: on the animated-image path, direct or through
\* the MP4 fallback, the frame duration handed to the encoder is
\* 1000 / frameRate truncated to whole milliseconds, for frameRate > 0.
C15_DurationIsTruncated ==
    \A i \in GifWritten :
      LET d == Get(written[i].duration)
      IN  /\ config.framerate * d <= 1000
          /\ 1000 < config.framerate * (d + 1)

\* 24 fps through the MP4 fallback: 41.67 ms is handed over as 41
C15_Witness ==
    /\ Mp4WithoutMoviepy
    /\ config.framerate = 24
    /\ GifWritten = {1}
    /\ written[1].duration = Some(41)

\* C15: on the animated-image path, direct or through the MP4 fallback,
\* the frame duration handed to the encoder is the integer nearest to
\* 1000 / frameRate, for every frameRate > 0.
C15_DurationIsNearest ==
    \A i \in GifWritten :
      2 * Abs(config.framerate * Get(written[i].duration) - 1000)
        <= config.framerate

-----------------------------------------------------------------------------
(* Pause frame count, under SpecCli *)

\* pauseDuration * frameRate as a fraction: numerator and denominator
PauseProduct == config.pause_duration[1] * config.framerate
PauseDenominator == config.pause_duration[2]

\* the product with its fractional part dropped
PauseTruncated ==
    IF PauseProduct >= 0
      THEN PauseProduct \div PauseDenominator
      ELSE -((-PauseProduct) \div PauseDenominator)

\* n is an integer nearest to the product, or 0 for a negative product
IsPauseRounded(n) ==
    IF PauseProduct < 0
      THEN n = 0
      ELSE 2 * Abs(PauseDenominator * n - PauseProduct) <= PauseDenominator

\* the frames generate_frames returns show a pause frame count of n: the
\* static path has max(n, 30) frames, the scrolling path holds n frames at
\* the top (and n at the bottom in the modes that hold there)
ShowsPauseCount(n) ==
    IF ~Scrolling
      THEN Len(frames) = Max(n, 30)
      ELSE LET down == Hold(0, n) \o Descent(MaxY, config.scroll_speed)
           IN  CASE config.scroll_mode = "down" ->
                      Offsets = down \o Hold(MaxY, n)
                 [] config.scroll_mode = "down-up" ->
                      Offsets = down \o Hold(MaxY, n)
                                  \o Ascent(MaxY, config.scroll_speed)
                 [] OTHER -> n > 0 => Offsets = down

-----------------------------------------------------------------------------
(* Stage order and reconciliation *)

StageOrder ==
    <<"load_image", "calculate_dimensions", "preprocess_image",
      "generate_frames", "save_output">>

\* the stages run so far are the first stages of the order, each once
StagesInOrder ==
    /\ Len(stages) <= Len(StageOrder)
    /\ stages = SubSeq(StageOrder, 1, Len(stages))

\* every window extracted so far is as wide as the scaled image
WindowsFitScaledImage ==
    \A i \in 1..Len(frames) : frames[i].w = Get(scaled_image).w

\* the step that is preprocess_image
Resampled == pc = "pre" /\ pc' = "gen"

\* the target width changes only in preprocess_image and the window height
\* only in the geometry stage and in preprocess_image; preprocess_image,
\* with the image resampled and no window extracted yet, sets the target
\* width to the scaled width and rescales the window height by
\* newWidth / targetWidth when the two widths differ
ReconciledInPreprocess ==
    /\ config'.output_width # config.output_width => Resampled
    /\ window_height' # window_height => (pc = "dims" \/ Resampled)
    /\ Resampled
       => /\ scaled_image = None /\ scaled_image' # None
          /\ frames = <<>> /\ frames' = <<>>
          /\ config'.output_width = Get(scaled_image').w
          /\ window_height' =
               IF Get(scaled_image').w # config.output_width
                 THEN Some((Get(window_height) * Get(scaled_image').w)
                             \div config.output_width)
                 ELSE window_height

\* C17: in every run the stages execute in the order load, geometry,
\* preprocess, frame generation, encode; the width/height reconciliation
\* happens once, in preprocess after the resampling and before the first
\* window is extracted; so every window extracted is as wide as the scaled
\* image.
C17_StagesInOrderReconciledOnce ==
    /\ [](StagesInOrder /\ WindowsFitScaledImage)
    /\ [][ReconciledInPreprocess]_vars

\* quality 0.8 on the 16-wide source: scaled to 12 wide, window 9 rescaled
\* to 6, and the windows extracted are 12 wide
C17_Witness ==
    /\ FramesReady /\ Scrolling
    /\ config.quality_factor = <<4, 5>>
    /\ source_image = Some(TallImage)
    /\ Get(scaled_image).w = 12
    /\ config.output_width = 12
    /\ window_height = Some(6)
    /\ frames # <<>> /\ frames[1].w = 12
    /\ stages = SubSeq(StageOrder, 1, 4)

====
